---- MODULE Spec2Model ----
(***************************************************************************)
(* A model of DiscordClient.py: one client object (api_url, gateway_url)   *)
(* and the asynchronous calls made on it.  Every call is a coroutine that  *)
(* issues one HTTP request through the shared aiohttp session, is          *)
(* suspended until the server's response arrives, and then maps the        *)
(* response to a returned value or a raised exception.                     *)
(***************************************************************************)
EXTENDS Integers, Sequences, FiniteSets, TLC

VARIABLES
    api_url,      \* DiscordClient.api_url
    gateway_url,  \* DiscordClient.gateway_url (Absent until connect sets it)
    calls         \* the coroutines in flight, one per caller slot

vars == <<api_url, gateway_url, calls>>

(***************************************************************************)
(* Bounds of the model.                                                    *)
(***************************************************************************)
MaxLen == 2        \* longest JSON array a response carries

(***************************************************************************)
(* JSON documents, as response.json() hands them to the code.              *)
(***************************************************************************)
JNull     == [t |-> "null"]
JStr(x)   == [t |-> "str", v |-> x]
JNum(n)   == [t |-> "num", v |-> n]
JObj(f)   == [t |-> "obj", f |-> f]
JArr(e)   == [t |-> "arr", e |-> e]

\* A response body: text that parses to a JSON document, or text that does not.
Parsable(doc) == [parse |-> "ok", doc |-> doc]
Unparsable    == [parse |-> "error"]

\* The value of an attribute that was never assigned.
Absent == [t |-> "absent"]

\* The result of evaluating a Python expression: a value or a raised exception.
Ok(v)        == [ok |-> TRUE, v |-> v]
Raise(ty, m) == [ok |-> FALSE, exc |-> [type |-> ty, msg |-> m]]

\* await response.json()
json(body) ==
    IF body.parse = "ok" THEN Ok(body.doc)
    ELSE Raise("JSONDecodeError", "body is not JSON")

\* data[key] for a string key: a dict looks the key up, anything else that
\* JSON decodes to (list, str, int, None) rejects a string subscript.
GetItem(data, key) ==
    IF data.t = "obj"
    THEN IF key \in DOMAIN data.f THEN Ok(data.f[key]) ELSE Raise("KeyError", key)
    ELSE Raise("TypeError", key)

RECURSIVE SetToSeq(_)
SetToSeq(S) ==
    IF S = {} THEN <<>>
    ELSE LET x == CHOOSE y \in S : TRUE IN <<x>> \o SetToSeq(S \ {x})

\* "for x in data": a list yields its elements, a dict its keys, a str its
\* characters (one-character strs; which character is immaterial, a str
\* rejects every string subscript), None and numbers are not iterable.
Iterate(data) ==
    CASE data.t = "arr" -> Ok(data.e)
      [] data.t = "obj" -> Ok([i \in 1..Cardinality(DOMAIN data.f) |->
                                  JStr(SetToSeq(DOMAIN data.f)[i])])
      [] data.t = "str" -> Ok([i \in 1..Len(data.v) |-> JStr("c")])
      [] OTHER          -> Raise("TypeError", "not iterable")

\* str(n), as the f-strings format an int.
Digits == <<"0", "1", "2", "3", "4", "5", "6", "7", "8", "9">>

RECURSIVE NatToStr(_)
NatToStr(n) ==
    IF n < 10 THEN Digits[n + 1]
    ELSE NatToStr(n \div 10) \o Digits[(n % 10) + 1]

str(n) == IF n < 0 THEN "-" \o NatToStr(-n) ELSE NatToStr(n)

(***************************************************************************)
(* The three records.                                                      *)
(***************************************************************************)
Message(id, content, author) ==
    [class |-> "Message", id |-> id, content |-> content, author |-> author]

User(id, username, discriminator, avatar) ==
    [class |-> "User", id |-> id, username |-> username,
     discriminator |-> discriminator, avatar |-> avatar]

Channel(id, name, channel_type) ==
    [class |-> "Channel", id |-> id, name |-> name, channel_type |-> channel_type]

\* What a coroutine hands to its caller.
True        == [class |-> "bool", v |-> TRUE]
None        == [class |-> "NoneType"]
List(items) == [class |-> "list", items |-> items]

Return(value) == [kind |-> "return", value |-> value]
Raised(exc)   == [kind |-> "raise", exc |-> exc]

\* A failure message that leaves the status out.
ValueError_without_status(text, status) ==
    Raised([type |-> "ValueError", msg |-> text])

\* raise ValueError(f"<text>: {response.status}")
ValueError(text, status) ==
    Raised([type |-> "ValueError", msg |-> text \o ": " \o str(status)])

\* Message(d["id"], d["content"], d["author"]["username"]), left to right.
MessageFrom(d) ==
    LET id      == GetItem(d, "id")
        content == GetItem(d, "content")
        author  == GetItem(d, "author")
        name    == IF author.ok THEN GetItem(author.v, "username") ELSE author
    IN  IF ~id.ok THEN id
        ELSE IF ~content.ok THEN content
        ELSE IF ~name.ok THEN name
        ELSE Ok(Message(id.v, content.v, name.v))

\* User(d["id"], d["username"], d["discriminator"], d["avatar"])
UserFrom(d) ==
    LET id    == GetItem(d, "id")
        name  == GetItem(d, "username")
        discr == GetItem(d, "discriminator")
        av    == GetItem(d, "avatar")
    IN  IF ~id.ok THEN id
        ELSE IF ~name.ok THEN name
        ELSE IF ~discr.ok THEN discr
        ELSE IF ~av.ok THEN av
        ELSE Ok(User(id.v, name.v, discr.v, av.v))

\* The name and the type passed to Channel in the wrong order.
ChannelFrom_swapped(d) ==
    LET id   == GetItem(d, "id")
        name == GetItem(d, "name")
        ty   == GetItem(d, "type")
    IN  IF ~id.ok THEN id
        ELSE IF ~name.ok THEN name
        ELSE IF ~ty.ok THEN ty
        ELSE Ok(Channel(id.v, ty.v, name.v))

\* Channel(d["id"], d["name"], d["type"])
ChannelFrom(d) ==
    LET id   == GetItem(d, "id")
        name == GetItem(d, "name")
        ty   == GetItem(d, "type")
    IN  IF ~id.ok THEN id
        ELSE IF ~name.ok THEN name
        ELSE IF ~ty.ok THEN ty
        ELSE Ok(Channel(id.v, name.v, ty.v))

\* A loop that stops at the first element it cannot decode and keeps the
\* messages decoded before it.
RECURSIVE MessagesOf_prefix(_)
MessagesOf_prefix(items) ==
    IF items = <<>> THEN Ok(<<>>)
    ELSE LET first == MessageFrom(Head(items))
         IN  IF ~first.ok THEN Ok(<<>>)
             ELSE Ok(<<first.v>> \o MessagesOf_prefix(Tail(items)).v)

\* [Message(...) for msg in data]: the first element that raises ends the
\* comprehension, and the list built so far is dropped.
RECURSIVE MessagesOf(_)
MessagesOf(items) ==
    IF items = <<>> THEN Ok(<<>>)
    ELSE LET first == MessageFrom(Head(items))
             rest  == MessagesOf(Tail(items))
         IN  IF ~first.ok THEN first
             ELSE IF ~rest.ok THEN rest
             ELSE Ok(<<first.v>> \o rest.v)

\* [User(...) for friend in data]
RECURSIVE UsersOf(_)
UsersOf(items) ==
    IF items = <<>> THEN Ok(<<>>)
    ELSE LET first == UserFrom(Head(items))
             rest  == UsersOf(Tail(items))
         IN  IF ~first.ok THEN first
             ELSE IF ~rest.ok THEN rest
             ELSE Ok(<<first.v>> \o rest.v)

\* The outcome of "return <expression>" where the expression may raise.
ReturnOrRaise(r) == IF r.ok THEN Return(r.v) ELSE Raised(r.exc)

(***************************************************************************)
(* What happens once the response has arrived: the body of each            *)
(* "async with ... as response" block.  args are the call's arguments.     *)
(***************************************************************************)

\* A connect that keeps the first gateway it discovered.
connect_first_only(gw, status, body) ==
    IF status = 200
    THEN LET data == json(body)
             url  == IF data.ok THEN GetItem(data.v, "url") ELSE data
         IN  IF url.ok
             THEN [outcome |-> Return(None),
                   gateway_url |-> IF gw = Absent THEN url.v ELSE gw]
             ELSE [outcome |-> Raised(url.exc), gateway_url |-> gw]
    ELSE [outcome |-> ValueError("Failed to connect to Discord", status),
          gateway_url |-> gw]

\* A connect that forgets the gateway when discovery fails.
connect_resetting(gw, status, body) ==
    IF status = 200
    THEN LET data == json(body)
             url  == IF data.ok THEN GetItem(data.v, "url") ELSE data
         IN  IF url.ok
             THEN [outcome |-> Return(None), gateway_url |-> url.v]
             ELSE [outcome |-> Raised(url.exc), gateway_url |-> gw]
    ELSE [outcome |-> ValueError("Failed to connect to Discord", status),
          gateway_url |-> Absent]

\* connect also yields the value gateway_url has afterwards (gw: its value
\* before): the assignment happens only after data["url"] was evaluated.
connect_on_response(gw, status, body) ==
    IF status = 200
    THEN LET data == json(body)
             url  == IF data.ok THEN GetItem(data.v, "url") ELSE data
         IN  IF url.ok
             THEN [outcome |-> Return(None), gateway_url |-> url.v]
             ELSE [outcome |-> Raised(url.exc), gateway_url |-> gw]
    ELSE [outcome |-> ValueError("Failed to connect to Discord", status),
          gateway_url |-> gw]

send_message_on_response(args, status, body) ==
    IF status = 200 THEN Return(True)
    ELSE ValueError("Failed to send message", status)

receive_message_on_response(args, status, body) ==
    IF status = 200
    THEN LET data == json(body)
         IN  ReturnOrRaise(IF data.ok THEN MessageFrom(data.v) ELSE data)
    ELSE ValueError("Failed to receive message", status)

edit_message_on_response(args, status, body) ==
    IF status = 200 THEN Return(True)
    ELSE ValueError("Failed to edit message", status)

\* The status test copied from edit_message.
delete_message_on_200(args, status, body) ==
    IF status = 200 THEN Return(True)
    ELSE ValueError("Failed to delete message", status)

delete_message_on_response(args, status, body) ==
    IF status = 204 THEN Return(True)
    ELSE ValueError("Failed to delete message", status)

get_user_info_on_response(args, status, body) ==
    IF status = 200
    THEN LET data == json(body)
         IN  ReturnOrRaise(IF data.ok THEN UserFrom(data.v) ELSE data)
    ELSE ValueError("Failed to get user info", status)

get_channel_info_on_response(args, status, body) ==
    IF status = 200
    THEN LET data == json(body)
         IN  ReturnOrRaise(IF data.ok THEN ChannelFrom(data.v) ELSE data)
    ELSE ValueError("Failed to get channel info", status)

\* The list built by a comprehension over the decoded body.
ListOfMessages(data) ==
    LET items == IF data.ok THEN Iterate(data.v) ELSE data
        msgs  == IF items.ok THEN MessagesOf(items.v) ELSE items
    IN  IF msgs.ok THEN Ok(List(msgs.v)) ELSE msgs

ListOfUsers(data) ==
    LET items == IF data.ok THEN Iterate(data.v) ELSE data
        users == IF items.ok THEN UsersOf(items.v) ELSE items
    IN  IF users.ok THEN Ok(List(users.v)) ELSE users

\* A fetch that cuts the list down to limit messages.
fetch_channel_messages_truncating(args, status, body) ==
    IF status = 200
    THEN LET r == ListOfMessages(json(body))
         IN  IF r.ok /\ Len(r.v.items) > args.limit
             THEN Return(List(SubSeq(r.v.items, 1, args.limit)))
             ELSE ReturnOrRaise(r)
    ELSE ValueError("Failed to fetch channel messages", status)

fetch_channel_messages_on_response(args, status, body) ==
    IF status = 200 THEN ReturnOrRaise(ListOfMessages(json(body)))
    ELSE ValueError("Failed to fetch channel messages", status)

get_user_messages_on_response(args, status, body) ==
    IF status = 200 THEN ReturnOrRaise(ListOfMessages(json(body)))
    ELSE ValueError("Failed to fetch user messages", status)

get_user_friends_on_response(args, status, body) ==
    IF status = 200 THEN ReturnOrRaise(ListOfUsers(json(body)))
    ELSE ValueError("Failed to fetch user friends", status)

\* A create_channel that takes 200 (OK) for success as well as 201.
create_channel_any_ok(args, status, body) ==
    IF status \in {200, 201}
    THEN LET data == json(body)
         IN  ReturnOrRaise(IF data.ok THEN ChannelFrom(data.v) ELSE data)
    ELSE ValueError("Failed to create channel", status)

create_channel_on_response(args, status, body) ==
    IF status = 201
    THEN LET data == json(body)
         IN  ReturnOrRaise(IF data.ok THEN ChannelFrom(data.v) ELSE data)
    ELSE ValueError("Failed to create channel", status)

\* Only connect assigns an attribute of the client.
Keeping(gw, outcome) == [outcome |-> outcome, gateway_url |-> gw]

OnResponse(c, gw) ==
    CASE c.op = "connect" ->
           connect_on_response(gw, c.status, c.body)
      [] c.op = "send_message" ->
           Keeping(gw, send_message_on_response(c.args, c.status, c.body))
      [] c.op = "receive_message" ->
           Keeping(gw, receive_message_on_response(c.args, c.status, c.body))
      [] c.op = "edit_message" ->
           Keeping(gw, edit_message_on_response(c.args, c.status, c.body))
      [] c.op = "delete_message" ->
           Keeping(gw, delete_message_on_response(c.args, c.status, c.body))
      [] c.op = "get_user_info" ->
           Keeping(gw, get_user_info_on_response(c.args, c.status, c.body))
      [] c.op = "get_channel_info" ->
           Keeping(gw, get_channel_info_on_response(c.args, c.status, c.body))
      [] c.op = "fetch_channel_messages" ->
           Keeping(gw, fetch_channel_messages_on_response(c.args, c.status, c.body))
      [] c.op = "get_user_messages" ->
           Keeping(gw, get_user_messages_on_response(c.args, c.status, c.body))
      [] c.op = "get_user_friends" ->
           Keeping(gw, get_user_friends_on_response(c.args, c.status, c.body))
      [] c.op = "create_channel" ->
           Keeping(gw, create_channel_on_response(c.args, c.status, c.body))

(***************************************************************************)
(* The inputs the model draws from: call arguments, and the responses the  *)
(* server may give.                                                        *)
(***************************************************************************)
ApiUrls    == {"https://discord.test/api"}
ChannelIds == {"c1", "c2"}
MessageIds == {"m1", "m2"}
UserIds    == {"u1", "u2"}
Contents   == {"hi", "yo"}
Limits     == {1, 10}
Names      == {"general", "lounge"}
Types      == {"text", "voice"}
Statuses   == {200, 201, 204, 404, 500}

\* f without key k: a JSON object lacking one field.
Without(f, k) == [x \in DOMAIN f \ {k} |-> f[x]]

WfMessages ==
    { JObj([id |-> i, content |-> JStr("hello"),
            author |-> JObj([username |-> JStr("ann"), id |-> JStr("7")])])
        : i \in {JStr("1"), JNum(2)} }

BadMessages ==
    LET m == (CHOOSE x \in WfMessages : x.f.id = JStr("1")).f
    IN  { JObj(Without(m, "id")), JObj(Without(m, "content")),
          JObj(Without(m, "author")),
          JObj([m EXCEPT !.author = JObj([id |-> JStr("7")])]),
          JObj([m EXCEPT !.author = JStr("ann")]),
          JNull }

WfUsers ==
    { JObj([id |-> JStr("u1"), username |-> JStr("ann"),
            discriminator |-> JStr("0001"), avatar |-> JStr("a1b2")]),
      JObj([id |-> JNum(2), username |-> JStr("bob"),
            discriminator |-> JNum(42), avatar |-> JNull]) }

BadUsers ==
    LET u == (CHOOSE x \in WfUsers : x.f.id = JStr("u1")).f
    IN  { JObj(Without(u, "id")), JObj(Without(u, "username")),
          JObj(Without(u, "discriminator")), JObj(Without(u, "avatar")),
          JStr("ann") }

WfChannels ==
    { JObj([id |-> JStr("1"), name |-> JStr("general"), type |-> JStr("text")]),
      JObj([id |-> JNum(2), name |-> JStr("lounge"), type |-> JStr("voice")]) }

BadChannels ==
    LET c == (CHOOSE x \in WfChannels : x.f.id = JStr("1")).f
    IN  { JObj(Without(c, "id")), JObj(Without(c, "name")),
          JObj(Without(c, "type")), JArr(<<>>) }

WfGateways  == { JObj([url |-> JStr(u)]) : u \in {"wss://gateway.example", "wss://b"} }
BadGateways == { JObj(<<>>), JNull, JArr(<<JStr("wss://b")>>) }

\* The arrays of at most MaxLen elements drawn from E.
ArraysOf(E) == UNION { { JArr(e) : e \in [1..n -> E] } : n \in 0..MaxLen }

\* Bodies that are valid JSON but no array.
NonArrays == { JObj(<<>>), JObj([id |-> JStr("1")]), JStr(""), JStr("ab"), JNull }

MessageElems == WfMessages \cup
    { x \in BadMessages : x = JNull \/ (x.t = "obj" /\ "content" \notin DOMAIN x.f) }
UserElems    == WfUsers \cup
    { x \in BadUsers : x.t = "obj" /\ "avatar" \notin DOMAIN x.f }

Docs(op) ==
    CASE op = "connect" -> WfGateways \cup BadGateways
      [] op \in {"send_message", "edit_message", "delete_message"} ->
           { JObj(<<>>) }
      [] op = "receive_message" ->
           WfMessages \cup BadMessages \cup { JArr(<<x>>) : x \in WfMessages }
      [] op = "get_user_info" -> WfUsers \cup BadUsers
      [] op \in {"get_channel_info", "create_channel"} ->
           WfChannels \cup BadChannels
      [] op \in {"fetch_channel_messages", "get_user_messages"} ->
           ArraysOf(MessageElems) \cup NonArrays
      [] op = "get_user_friends" -> ArraysOf(UserElems) \cup NonArrays

\* The bodies the server may answer a call of op with.
Bodies(op) == { Parsable(d) : d \in Docs(op) } \cup { Unparsable }

(***************************************************************************)
(* The calls.  A slot of calls is one caller's coroutine:                  *)
(*   idle -> awaiting (request issued) -> responded -> done -> idle.       *)
(***************************************************************************)
Idle == [pc |-> "idle"]

Request(method, url, data) == [method |-> method, url |-> url, data |-> data]
NoData == {}

\* The coroutine runs up to its first suspension: the request has gone out.
Begin(s, op, args, request) ==
    /\ calls[s].pc = "idle"
    /\ calls' = [calls EXCEPT ![s] =
                   [pc |-> "awaiting", op |-> op, args |-> args, sent |-> <<request>>]]
    /\ UNCHANGED <<api_url, gateway_url>>

connect(s) ==
    Begin(s, "connect", <<>>, Request("GET", api_url \o "/gateway", NoData))

\* A send_message that fills one form object kept on the client: while
\* another send_message is in flight, the form holds that call's content.
send_message_shared_form(s, channel_id, message_content) ==
    LET others == { o \in DOMAIN calls :
                      /\ o # s
                      /\ calls[o].pc = "awaiting"
                      /\ calls[o].op = "send_message" }
        form   == IF others = {} THEN message_content
                  ELSE calls[CHOOSE o \in others : TRUE].args.message_content
    IN  Begin(s, "send_message",
              [channel_id |-> channel_id, message_content |-> message_content],
              Request("POST", api_url \o "/channels/" \o channel_id \o "/messages",
                      {<<"content", form>>}))

send_message(s, channel_id, message_content) ==
    Begin(s, "send_message",
          [channel_id |-> channel_id, message_content |-> message_content],
          Request("POST", api_url \o "/channels/" \o channel_id \o "/messages",
                  {<<"content", message_content>>}))

receive_message(s, channel_id) ==
    Begin(s, "receive_message", [channel_id |-> channel_id],
          Request("GET", api_url \o "/channels/" \o channel_id \o "/messages", NoData))

edit_message(s, channel_id, message_id, message_content) ==
    Begin(s, "edit_message",
          [channel_id |-> channel_id, message_id |-> message_id,
           message_content |-> message_content],
          Request("PUT",
                  api_url \o "/channels/" \o channel_id \o "/messages/" \o message_id,
                  {<<"content", message_content>>}))

delete_message(s, channel_id, message_id) ==
    Begin(s, "delete_message", [channel_id |-> channel_id, message_id |-> message_id],
          Request("DELETE",
                  api_url \o "/channels/" \o channel_id \o "/messages/" \o message_id,
                  NoData))

get_user_info(s, user_id) ==
    Begin(s, "get_user_info", [user_id |-> user_id],
          Request("GET", api_url \o "/users/" \o user_id, NoData))

get_channel_info(s, channel_id) ==
    Begin(s, "get_channel_info", [channel_id |-> channel_id],
          Request("GET", api_url \o "/channels/" \o channel_id, NoData))

fetch_channel_messages(s, channel_id, limit) ==
    Begin(s, "fetch_channel_messages", [channel_id |-> channel_id, limit |-> limit],
          Request("GET",
                  api_url \o "/channels/" \o channel_id \o "/messages?limit=" \o str(limit),
                  NoData))

get_user_messages(s, user_id, limit) ==
    Begin(s, "get_user_messages", [user_id |-> user_id, limit |-> limit],
          Request("GET",
                  api_url \o "/users/" \o user_id \o "/messages?limit=" \o str(limit),
                  NoData))

get_user_friends(s, user_id) ==
    Begin(s, "get_user_friends", [user_id |-> user_id],
          Request("GET", api_url \o "/users/" \o user_id \o "/friends", NoData))

create_channel(s, name, channel_type) ==
    Begin(s, "create_channel", [name |-> name, channel_type |-> channel_type],
          Request("POST", api_url \o "/channels",
                  {<<"name", name>>, <<"type", channel_type>>}))

\* The server answers the request of call s; what it answers is its choice.
Respond(s) ==
    /\ calls[s].pc = "awaiting"
    /\ \E status \in Statuses, body \in Bodies(calls[s].op) :
         calls' = [calls EXCEPT ![s] =
                     [pc |-> "responded", op |-> calls[s].op, args |-> calls[s].args,
                      sent |-> calls[s].sent, status |-> status, body |-> body]]
    /\ UNCHANGED <<api_url, gateway_url>>

\* A resumption that issues the request once more when the status is bad.
Resume_retrying(s) ==
    /\ calls[s].pc = "responded"
    /\ LET c == calls[s]
           r == OnResponse(c, gateway_url)
       IN  IF r.outcome.kind = "raise" /\ r.outcome.exc.type = "ValueError"
              /\ Len(c.sent) = 1
           THEN /\ calls' = [calls EXCEPT ![s] =
                               [pc |-> "awaiting", op |-> c.op, args |-> c.args,
                                sent |-> c.sent \o c.sent]]
                /\ UNCHANGED gateway_url
           ELSE /\ calls' = [calls EXCEPT ![s] =
                               [pc |-> "done", op |-> c.op, args |-> c.args,
                                sent |-> c.sent, status |-> c.status, body |-> c.body,
                                outcome |-> r.outcome, before |-> gateway_url]]
                /\ gateway_url' = r.gateway_url
    /\ UNCHANGED api_url

\* The event loop resumes call s, which runs to its return or raise.
\* before: gateway_url as the resumed coroutine found it.
Resume(s) ==
    /\ calls[s].pc = "responded"
    /\ LET c == calls[s]
           r == OnResponse(c, gateway_url)
       IN  /\ calls' = [calls EXCEPT ![s] =
                          [pc |-> "done", op |-> c.op, args |-> c.args, sent |-> c.sent,
                           status |-> c.status, body |-> c.body,
                           outcome |-> r.outcome, before |-> gateway_url]]
           /\ gateway_url' = r.gateway_url
    /\ UNCHANGED api_url

\* The caller has taken the result; it may call again.
Finish(s) ==
    /\ calls[s].pc = "done"
    /\ calls' = [calls EXCEPT ![s] = Idle]
    /\ UNCHANGED <<api_url, gateway_url>>

\* The callers that may have a call in flight on the one client.
Callers == {1, 2}

\* A caller that makes no calls.
Away == [pc |-> "away"]

\* DiscordClient(api_url): gateway_url is not assigned by the constructor.
\* One caller, which awaits each call before making the next.
Init ==
    /\ api_url \in ApiUrls
    /\ gateway_url = Absent
    /\ calls = [s \in Callers |-> IF s = 1 THEN Idle ELSE Away]

Next ==
    \/ \E s \in Callers : connect(s)
    \/ \E s \in Callers, c \in ChannelIds, m \in Contents : send_message(s, c, m)
    \/ \E s \in Callers, c \in ChannelIds : receive_message(s, c)
    \/ \E s \in Callers, c \in ChannelIds, i \in MessageIds, m \in Contents :
         edit_message(s, c, i, m)
    \/ \E s \in Callers, c \in ChannelIds, i \in MessageIds : delete_message(s, c, i)
    \/ \E s \in Callers, u \in UserIds : get_user_info(s, u)
    \/ \E s \in Callers, c \in ChannelIds : get_channel_info(s, c)
    \/ \E s \in Callers, c \in ChannelIds, l \in Limits : fetch_channel_messages(s, c, l)
    \/ \E s \in Callers, u \in UserIds, l \in Limits : get_user_messages(s, u, l)
    \/ \E s \in Callers, u \in UserIds : get_user_friends(s, u)
    \/ \E s \in Callers, n \in Names, t \in Types : create_channel(s, n, t)
    \/ \E s \in Callers : Respond(s)
    \/ \E s \in Callers : Resume(s)
    \/ \E s \in Callers : Finish(s)

Spec == Init /\ [][Next]_vars

\* Two callers on the same client, each with a connect or a send_message in
\* flight while the other's runs.
InitConc ==
    /\ api_url \in ApiUrls
    /\ gateway_url = Absent
    /\ calls = [s \in Callers |-> Idle]

NextConc ==
    \/ \E s \in Callers : connect(s)
    \/ \E s \in Callers, c \in ChannelIds, m \in Contents : send_message(s, c, m)
    \/ \E s \in Callers : Respond(s)
    \/ \E s \in Callers : Resume(s)
    \/ \E s \in Callers : Finish(s)

SpecConc == InitConc /\ [][NextConc]_vars

(***************************************************************************)
(* The documented contract, against which the calls are checked.           *)
(***************************************************************************)
Done(s)     == calls[s].pc = "done"
InFlight(s) == calls[s].pc \in {"awaiting", "responded", "done"}
Returned(s) == calls[s].outcome.kind = "return"
Failed(s)   == calls[s].outcome.kind = "raise"

\* The success status the interface table gives each operation.
DocumentedSuccess(op) ==
    CASE op = "create_channel" -> 201
      [] op = "delete_message" -> 204
      [] OTHER                 -> 200

\* A done call whose response had the documented status and a body that parsed.
Decoded(s) ==
    /\ Done(s)
    /\ calls[s].status = DocumentedSuccess(calls[s].op)
    /\ calls[s].body.parse = "ok"

Has(d, keys) == d.t = "obj" /\ keys \subseteq DOMAIN d.f

IsMessage(d) == /\ Has(d, {"id", "content", "author"})
                /\ Has(d.f.author, {"username"})
IsUser(d)    == Has(d, {"id", "username", "discriminator", "avatar"})
IsChannel(d) == Has(d, {"id", "name", "type"})
IsGateway(d) == Has(d, {"url"})

MessageOps  == {"receive_message"}
UserOps     == {"get_user_info"}
ChannelOps  == {"get_channel_info", "create_channel"}
MessagesOps == {"fetch_channel_messages", "get_user_messages"}
UsersOps    == {"get_user_friends"}
SuccessOps  == {"send_message", "edit_message", "delete_message"}

\* C1: whatever the operation and the body, a response whose status is not
\* the operation's documented success status makes the call raise: nothing
\* is returned (no True, no record, no list).
C1_OtherStatusFails ==
    \A s \in Callers :
        (Done(s) /\ calls[s].status # DocumentedSuccess(calls[s].op)) => Failed(s)

\* create_channel answered 200 with a well-formed channel has raised.
C1_Witness ==
    \E s \in Callers :
        /\ Done(s)
        /\ calls[s].op = "create_channel"
        /\ calls[s].status = 200
        /\ calls[s].body.parse = "ok"
        /\ IsChannel(calls[s].body.doc)
        /\ Failed(s)

\* C2: delete_message returns True exactly on status 204 (so 200 fails);
\* send_message and edit_message return True exactly on status 200 (so 204
\* fails).
C2_DeleteAsymmetry ==
    \A s \in Callers :
        Done(s) =>
            /\ calls[s].op = "delete_message" =>
                 ((calls[s].outcome = Return(True)) <=> (calls[s].status = 204))
            /\ calls[s].op \in {"send_message", "edit_message"} =>
                 ((calls[s].outcome = Return(True)) <=> (calls[s].status = 200))
            /\ calls[s].op \in SuccessOps => (Failed(s) <=> ~Returned(s))

\* delete_message answered 200 has raised.
C2_Witness ==
    \E s \in Callers :
        /\ Done(s)
        /\ calls[s].op = "delete_message"
        /\ calls[s].status = 200
        /\ Failed(s)

\* The record the field mapping assigns to a well-formed JSON object.
MessageFields(d, r) ==
    /\ r.class = "Message"
    /\ r.id = d.f.id /\ r.content = d.f.content /\ r.author = d.f.author.f.username
UserFields(d, r) ==
    /\ r.class = "User"
    /\ r.id = d.f.id /\ r.username = d.f.username
    /\ r.discriminator = d.f.discriminator /\ r.avatar = d.f.avatar
ChannelFields(d, r) ==
    /\ r.class = "Channel"
    /\ r.id = d.f.id /\ r.name = d.f.name /\ r.channel_type = d.f.type

GeneralChannel ==
    JObj([id |-> JStr("1"), name |-> JStr("general"), type |-> JStr("text")])

\* C3: a success status with a well-formed body yields the record whose
\* fields are the JSON fields (Message: id, content, author.username; User:
\* id, username, discriminator, avatar; Channel: id, name, type); and
\* create_channel answered 201 {id:"1", name:"general", type:"text"} returns
\* Channel{id:"1", name:"general", channel_type:"text"}.
C3_FieldsRoundTrip ==
    \A s \in Callers :
        Decoded(s) =>
            LET c == calls[s]  d == c.body.doc
            IN  /\ (c.op \in MessageOps /\ IsMessage(d)) =>
                     (Returned(s) /\ MessageFields(d, c.outcome.value))
                /\ (c.op \in UserOps /\ IsUser(d)) =>
                     (Returned(s) /\ UserFields(d, c.outcome.value))
                /\ (c.op \in ChannelOps /\ IsChannel(d)) =>
                     (Returned(s) /\ ChannelFields(d, c.outcome.value))
                /\ (c.op = "create_channel" /\ d = GeneralChannel) =>
                     c.outcome.value =
                        [class |-> "Channel", id |-> JStr("1"),
                         name |-> JStr("general"), channel_type |-> JStr("text")]

\* create_channel("general", "text") answered 201 with the general channel
\* has returned.
C3_Witness ==
    \E s \in Callers :
        /\ Decoded(s)
        /\ calls[s].op = "create_channel"
        /\ calls[s].args = [name |-> "general", channel_type |-> "text"]
        /\ calls[s].body.doc = GeneralChannel
        /\ Returned(s)

\* C4: when a connect has completed against status 200 and body {"url": u},
\* gateway_url is u; a later successful connect with another url replaces it.
C4_GatewayStored ==
    \A s \in Callers :
        (Decoded(s) /\ calls[s].op = "connect" /\ IsGateway(calls[s].body.doc)) =>
            /\ gateway_url = calls[s].body.doc.f.url
            /\ calls[s].outcome = Return(None)

\* A second successful connect has replaced the url the first one stored.
C4_Witness ==
    \E s \in Callers :
        /\ Decoded(s) /\ calls[s].op = "connect"
        /\ calls[s].before = JStr("wss://b")
        /\ calls[s].body.doc = JObj([url |-> JStr("wss://gateway.example")])
        /\ gateway_url = JStr("wss://gateway.example")

\* The text each operation's failure message starts with.
FailureText(op) ==
    CASE op = "connect"                -> "Failed to connect to Discord"
      [] op = "send_message"           -> "Failed to send message"
      [] op = "receive_message"        -> "Failed to receive message"
      [] op = "edit_message"           -> "Failed to edit message"
      [] op = "delete_message"         -> "Failed to delete message"
      [] op = "get_user_info"          -> "Failed to get user info"
      [] op = "get_channel_info"       -> "Failed to get channel info"
      [] op = "fetch_channel_messages" -> "Failed to fetch channel messages"
      [] op = "get_user_messages"      -> "Failed to fetch user messages"
      [] op = "get_user_friends"       -> "Failed to fetch user friends"
      [] op = "create_channel"         -> "Failed to create channel"

BadStatus(s) == Done(s) /\ calls[s].status # DocumentedSuccess(calls[s].op)

\* C5 as the specification states it: a bad status is reported as a
\* ConnectionError by connect and as a RequestError by every other operation.
C5_TwoErrorKinds ==
    \A s \in Callers :
        BadStatus(s) =>
            /\ Failed(s)
            /\ calls[s].outcome.exc.type =
                 IF calls[s].op = "connect" THEN "ConnectionError" ELSE "RequestError"

\* C5, amended: a bad status is reported as a ValueError by every operation,
\* connect included; its message is the operation's own failure text followed
\* by the status of that call's response.
C5_ValueErrorWithStatus ==
    \A s \in Callers :
        BadStatus(s) =>
            /\ Failed(s)
            /\ calls[s].outcome.exc.type = "ValueError"
            /\ calls[s].outcome.exc.msg =
                 FailureText(calls[s].op) \o ": " \o str(calls[s].status)
            /\ \A st \in Statuses \ {calls[s].status} :
                 calls[s].outcome.exc.msg # FailureText(calls[s].op) \o ": " \o str(st)

\* send_message answered 404 has raised.
C5_Witness ==
    \E s \in Callers :
        /\ BadStatus(s)
        /\ calls[s].op = "send_message"
        /\ calls[s].status = 404
        /\ Failed(s)

\* The request send_message(channel_id, content) is documented to make.
SendRequest(channel_id, content) ==
    [method |-> "POST",
     url    |-> api_url \o "/channels/" \o channel_id \o "/messages",
     data   |-> {<<"content", content>>}]

\* C6: with two send_message calls in flight at once, however their steps
\* interleave, each call's request goes to its own channel's path with its
\* own content, and each call's outcome (True, or the failure and the status
\* in it) follows from its own response alone.
C6_ConcurrentSendsIndependent ==
    \A s \in Callers :
        (InFlight(s) /\ calls[s].op = "send_message") =>
            /\ calls[s].sent =
                 <<SendRequest(calls[s].args.channel_id, calls[s].args.message_content)>>
            /\ Done(s) =>
                 calls[s].outcome =
                    IF calls[s].status = 200 THEN Return(True)
                    ELSE Raised([type |-> "ValueError",
                                 msg  |-> "Failed to send message: "
                                             \o str(calls[s].status)])

\* Two send_message calls for different channels with different contents are
\* in flight together: both requests are out, one was answered 200 and the
\* other 500, and neither coroutine has been resumed yet.
C6_Witness ==
    /\ calls[1].pc = "responded" /\ calls[2].pc = "responded"
    /\ calls[1].op = "send_message" /\ calls[2].op = "send_message"
    /\ calls[1].args.channel_id # calls[2].args.channel_id
    /\ calls[1].args.message_content # calls[2].args.message_content
    /\ calls[1].status = 200 /\ calls[2].status = 500
    /\ calls[1].sent # calls[2].sent

\* Every element of items satisfies P.
AllAre(items, P(_)) == \A i \in 1..Len(items) : P(items[i])

C8_WitnessEmpty ==
    \E s \in Callers :
        /\ Decoded(s)
        /\ calls[s].op = "get_user_messages"
        /\ calls[s].body.doc = JArr(<<>>)
        /\ calls[s].outcome = Return(List(<<>>))

\* The method and the path the interface table gives each operation.
DocumentedMethod(op) ==
    CASE op \in {"send_message", "create_channel"} -> "POST"
      [] op = "edit_message"                       -> "PUT"
      [] op = "delete_message"                     -> "DELETE"
      [] OTHER                                     -> "GET"

DocumentedPath(op, a) ==
    CASE op = "connect"          -> "/gateway"
      [] op = "send_message"     -> "/channels/" \o a.channel_id \o "/messages"
      [] op = "receive_message"  -> "/channels/" \o a.channel_id \o "/messages"
      [] op = "edit_message"     ->
           "/channels/" \o a.channel_id \o "/messages/" \o a.message_id
      [] op = "delete_message"   ->
           "/channels/" \o a.channel_id \o "/messages/" \o a.message_id
      [] op = "get_user_info"    -> "/users/" \o a.user_id
      [] op = "get_channel_info" -> "/channels/" \o a.channel_id
      [] op = "fetch_channel_messages" ->
           "/channels/" \o a.channel_id \o "/messages?limit=" \o str(a.limit)
      [] op = "get_user_messages" ->
           "/users/" \o a.user_id \o "/messages?limit=" \o str(a.limit)
      [] op = "get_user_friends" -> "/users/" \o a.user_id \o "/friends"
      [] op = "create_channel"   -> "/channels"

\* C9: a call issues exactly one HTTP request, with the documented method and
\* path, and it has issued no other by the time it returns or raises: a bad
\* status is not retried.
C9_OneRequestPerCall ==
    \A s \in Callers :
        InFlight(s) =>
            /\ Len(calls[s].sent) = 1
            /\ calls[s].sent[1].method = DocumentedMethod(calls[s].op)
            /\ calls[s].sent[1].url = api_url \o DocumentedPath(calls[s].op, calls[s].args)

\* edit_message answered 500 has raised after its one PUT.
C9_Witness ==
    \E s \in Callers :
        /\ Done(s) /\ Failed(s)
        /\ calls[s].op = "edit_message"
        /\ calls[s].status = 500
        /\ calls[s].sent =
             <<[method |-> "PUT",
                url |-> api_url \o "/channels/" \o calls[s].args.channel_id
                           \o "/messages/" \o calls[s].args.message_id,
                data |-> {<<"content", calls[s].args.message_content>>}]>>

\* C10: gateway_url is absent on a new client and changes only in the step
\* in which a connect answered 200 completes; a connect answered otherwise,
\* and every step of every other operation, leaves gateway_url as it was;
\* api_url never changes.
C10_OnlyConnectSetsGateway ==
    /\ gateway_url = Absent
    /\ [][ /\ api_url' = api_url
           /\ gateway_url' # gateway_url =>
                \E s \in Callers :
                    /\ calls[s].pc = "responded" /\ calls'[s].pc = "done"
                    /\ calls[s].op = "connect"
                    /\ calls[s].status = 200
                    /\ calls'[s].outcome = Return(None) ]_vars

\* With a gateway stored, a connect answered 500 has raised and the stored
\* gateway is still the one it found.
C10_Witness ==
    \E s \in Callers :
        /\ Done(s) /\ Failed(s)
        /\ calls[s].op = "connect"
        /\ calls[s].status = 500
        /\ calls[s].before # Absent
        /\ gateway_url = calls[s].before

\* With a gateway stored, a get_user_info has returned a User and the stored
\* gateway is unchanged.
C10_WitnessOther ==
    \E s \in Callers :
        /\ Done(s) /\ Returned(s)
        /\ calls[s].op = "get_user_info"
        /\ calls[s].before # Absent
        /\ gateway_url = calls[s].before

====
